---- MODULE Spec2Model ----
(***************************************************************************)
(* Model of USDTBalanceSeedPhraseRecovery (src/diagnose.js): the index to  *)
(* candidate mapping, the attempt ledger (log file), the checkpoint file   *)
(* and the enumeration loop of findValidSeedPhrases, with process          *)
(* termination and restart.                                                *)
(***************************************************************************)
EXTENDS Integers, Sequences, FiniteSets, TLC

(***************************************************************************)
(* Bounds of the model.                                                    *)
(***************************************************************************)
\* how many times the process may be terminated and started again
MaxRestarts == 1
\* how many fs operations may fail with an I/O error over a behaviour
MaxIOFailures == 1
\* the largest number of free slots of the templates whose search-space
\* size is computed without enumerating the space
MaxFreeSlots == 24

(***************************************************************************)
(* Arithmetic helpers.                                                     *)
(***************************************************************************)
RECURSIVE Pow(_, _)
Pow(b, e) == IF e = 0 THEN 1 ELSE b * Pow(b, e - 1)

(***************************************************************************)
(* Integers beyond the range of the model checker.  The value of           *)
(* wordList.length ** missingPositions.length, and the BigInt made of it,  *)
(* are held as their binary digits, least significant first and without    *)
(* leading zeros (0 is the empty sequence).                                *)
(***************************************************************************)
\* the value of a short digit sequence as an integer of the model
RECURSIVE BigValue(_)
BigValue(x) == IF x = <<>> THEN 0 ELSE x[1] + 2 * BigValue(Tail(x))

\* The powers are computed on limbs of LimbBits binary digits (least
\* significant limb first): x * v + carry for a small v
LimbBits == 14

RECURSIVE LimbsTimes(_, _, _)
LimbsTimes(x, v, carry) ==
    IF x = <<>> THEN (IF carry = 0 THEN <<>> ELSE <<carry>>)
    ELSE LET t == x[1] * v + carry
         IN  <<t % Pow(2, LimbBits)>> \o LimbsTimes(Tail(x), v, t \div Pow(2, LimbBits))

RECURSIVE LimbsPow(_, _)
LimbsPow(V, M) == IF M = 0 THEN <<1>> ELSE LimbsTimes(LimbsPow(V, M - 1), V, 0)

\* the k low binary digits of a limb, and all the digits of the top limb
RECURSIVE LimbDigits(_, _)
LimbDigits(n, k) == IF k = 0 THEN <<>> ELSE <<n % 2>> \o LimbDigits(n \div 2, k - 1)

RECURSIVE TopLimbDigits(_)
TopLimbDigits(n) == IF n = 0 THEN <<>> ELSE <<n % 2>> \o TopLimbDigits(n \div 2)

\* the binary digits of a limb sequence, without leading zeros
RECURSIVE BitsOfLimbs(_)
BitsOfLimbs(x) ==
    IF x = <<>> THEN <<>>
    ELSE IF Len(x) = 1 THEN TopLimbDigits(x[1])
    ELSE LimbDigits(x[1], LimbBits) \o BitsOfLimbs(Tail(x))

\* V^M as a mathematical integer
BigPow(V, M) == BitsOfLimbs(LimbsPow(V, M))

\* x + 1
BigSucc(x) ==
    LET zeros == {i \in 1..Len(x) : x[i] = 0}
        z     == IF zeros = {} THEN Len(x) + 1
                 ELSE CHOOSE i \in zeros : \A j \in zeros : i <= j
    IN  [i \in 1..(IF z > Len(x) THEN z ELSE Len(x)) |->
            IF i < z THEN 0 ELSE IF i = z THEN 1 ELSE x[i]]

\* significand width of a JavaScript Number (IEEE-754 binary64)
MantissaBits == 53

\* The Number nearest to the integer x (round half to even): what a Number
\* that is the result of an operation with the mathematical value x holds.
ToNumber(x) ==
    IF Len(x) <= MantissaBits THEN x
    ELSE LET drop   == Len(x) - MantissaBits
             kept   == SubSeq(x, drop + 1, Len(x))
             half   == x[drop] = 1
             sticky == \E i \in 1..(drop - 1) : x[i] = 1
             up     == half /\ (sticky \/ kept[1] = 1)
         IN  [i \in 1..drop |-> 0] \o (IF up THEN BigSucc(kept) ELSE kept)

\* BigInt(this.wordList.length ** this.missingPositions.length): the power
\* is taken on Numbers, the BigInt is made of the Number
CombinationCount(V, M) == ToNumber(BigPow(V, M))

(***************************************************************************)
(* Decimal text of a BigInt (toString / template literal) and its parse    *)
(* (BigInt(text)).  A text is a sequence of one-character strings.         *)
(***************************************************************************)
Digits == <<"0", "1", "2", "3", "4", "5", "6", "7", "8", "9">>

DigitSet == {Digits[i] : i \in 1..10}

DigitValue(c) == (CHOOSE i \in 1..10 : Digits[i] = c) - 1

RECURSIVE BigIntToString(_)
BigIntToString(n) ==
    IF n < 10 THEN <<Digits[n + 1]>>
    ELSE Append(BigIntToString(n \div 10), Digits[(n % 10) + 1])

\* BigInt(text) throws a SyntaxError unless the text is a decimal numeral
IsNumeral(text) == Len(text) > 0 /\ \A i \in 1..Len(text) : text[i] \in DigitSet

RECURSIVE ParseBigInt(_)
ParseBigInt(text) ==
    IF Len(text) = 0 THEN 0
    ELSE 10 * ParseBigInt(SubSeq(text, 1, Len(text) - 1)) + DigitValue(text[Len(text)])

(***************************************************************************)
(* generateCombination.                                                    *)
(***************************************************************************)
\* Array.prototype.splice(start, 0, item): start is clamped to the length,
\* a negative start counts from the end.
Splice(arr, start, item) ==
    LET len == Len(arr)
        s   == IF start < 0 THEN (IF len + start < 0 THEN 0 ELSE len + start)
               ELSE IF start > len THEN len ELSE start
    IN  SubSeq(arr, 1, s) \o <<item>> \o SubSeq(arr, s + 1, len)

\* the word index of free slot number index (0-based) for combinationIndex
WordIndex_LeastSignificantFirst(words, missing, combinationIndex, index) ==
    (combinationIndex \div Pow(Len(words), index)) % Len(words)

WordIndex_NoDivision(words, missing, combinationIndex, index) ==
    combinationIndex % Len(words)

WordIndex(words, missing, combinationIndex, index) ==
    (combinationIndex \div Pow(Len(words), Len(missing) - 1 - index)) % Len(words)

RECURSIVE SpliceSlots(_, _, _, _, _)
SpliceSlots(words, missing, combinationIndex, candidate, k) ==
    IF k > Len(missing) THEN candidate
    ELSE SpliceSlots(words, missing, combinationIndex,
                     Splice(candidate, missing[k] - 1,
                            words[WordIndex(words, missing, combinationIndex, k - 1) + 1]),
                     k + 1)

GenerateCombination(words, known, missing, combinationIndex) ==
    SpliceSlots(words, missing, combinationIndex, known, 1)

\* isValidBIP39Phrase: every word is in the word list
IsValidBIP39Phrase(words, seedPhrase) ==
    \A i \in 1..Len(seedPhrase) : \E j \in 1..Len(words) : words[j] = seedPhrase[i]

(***************************************************************************)
(* Search parameters.  A configuration is the content of english.txt       *)
(* (wordList) and the constructor's knownWords and missingPositions.       *)
(***************************************************************************)
\* the shape of main(): known words with two free slots, the last at the end
CfgMain == [wordList |-> <<"a", "b">>, knownWords |-> <<"a", "b">>,
            missingPositions |-> <<2, 4>>]

\* known words that are not in the word list
CfgUnknownWords == [wordList |-> <<"a", "b", "c">>, knownWords |-> <<"x", "y">>,
                    missingPositions |-> <<2, 4>>]

\* english.txt could not be read: wordListPromise resolves to []
CfgNoWordList == [wordList |-> <<>>, knownWords |-> <<"a">>,
                  missingPositions |-> <<1>>]

\* other known words and no free slot
CfgOther == [wordList |-> <<"a", "b">>, knownWords |-> <<"b">>,
             missingPositions |-> <<>>]

\* free slots listed in descending order (and an unknown word)
CfgDescending == [wordList |-> <<"a", "b">>, knownWords |-> <<"x">>,
                  missingPositions |-> <<2, 1>>]

Configs == {CfgMain, CfgUnknownWords, CfgNoWordList, CfgOther, CfgDescending}

\* every index of the search space of some configuration
IndexRange ==
    UNION {0..(BigValue(CombinationCount(Len(c.wordList), Len(c.missingPositions))) - 1) :
           c \in Configs}

\* Templates for the computation of the search-space size alone: the first V
\* words of a vocabulary, no known word, M free slots.
SizeVocabulary == <<"a", "b", "c", "d", "e", "f", "g">>

SizeConfigs ==
    {[wordList |-> SubSeq(SizeVocabulary, 1, V), knownWords |-> <<>>,
      missingPositions |-> [i \in 1..M |-> i]] :
        V \in 1..Len(SizeVocabulary), M \in 0..MaxFreeSlots}

\* this.combinationCount as initialize computes it, for every template
InitialCombinationCount ==
    [c \in Configs \cup SizeConfigs |->
        CombinationCount(Len(c.wordList), Len(c.missingPositions))]

VARIABLES
    config,                 \* constructor arguments and english.txt
    pc,                     \* position of main() / findValidSeedPhrases
    wordList,               \* this.wordList
    totalAttempts,          \* this.totalAttempts
    validAttempts,          \* this.validAttempts
    foundValidPhrases,      \* this.foundValidPhrases
    combinationCount,       \* this.combinationCount (binary digits)
    attemptedCombinations,  \* this.attemptedCombinations
    combinationIndex,       \* loop variable of findValidSeedPhrases
    candidateSeedPhrase,    \* const candidateSeedPhrase
    isValid,                \* const isValid
    logFile,                \* the file at logFilePath
    checkpointFile,         \* the file at checkpointPath
    restarts,               \* number of times the process was started again
    ioFailures,             \* number of fs operations that failed
    validated,              \* history: validateSeedPhrase calls per index
    oracleMatched,          \* history: balanceOf once reported more than 100
    matchWritten,           \* history: phrases whose match line was appended
    skipped,                \* history: indices passed over as already attempted
    cfgChanged,             \* history: a restart changed the configuration
    ckptParams,             \* history: configuration that wrote the checkpoint
    runActivity,            \* history: what this run wrote or validated
    logResult               \* history: outcome of this iteration's ledger append

memory == <<wordList, totalAttempts, validAttempts, foundValidPhrases,
            combinationCount, attemptedCombinations, combinationIndex,
            candidateSeedPhrase, isValid>>

files == <<logFile, checkpointFile>>

history == <<validated, oracleMatched, matchWritten, skipped, cfgChanged,
             ckptParams, runActivity, logResult>>

vars == <<config, pc, memory, files, restarts, ioFailures, history>>

NoFile == [exists |-> FALSE, marker |-> FALSE, header |-> <<>>, lines |-> <<>>]

(***************************************************************************)
(* The constructor.                                                        *)
(***************************************************************************)
Constructed ==
    /\ wordList = <<>>
    /\ totalAttempts = 0
    /\ validAttempts = 0
    /\ foundValidPhrases = <<>>
    /\ combinationCount = <<>>
    /\ attemptedCombinations = {}
    /\ combinationIndex = 0
    /\ candidateSeedPhrase = <<>>
    /\ isValid = FALSE

\* a first start: main() has constructed the object, no file exists
FirstStart ==
    /\ pc = "initialize"
    /\ Constructed
    /\ logFile = NoFile
    /\ checkpointFile = <<>>
    /\ restarts = 0
    /\ ioFailures = 0
    /\ validated = [i \in IndexRange |-> 0]
    /\ oracleMatched = FALSE
    /\ matchWritten = {}
    /\ skipped = {}
    /\ cfgChanged = FALSE
    /\ ckptParams = <<>>
    /\ runActivity = {}
    /\ logResult = "none"

Init == config \in Configs /\ FirstStart

SizeInit == config \in SizeConfigs /\ FirstStart

\* outcomes of an fs call: it may fail while the failure budget lasts
IOResults == IF ioFailures < MaxIOFailures THEN {TRUE, FALSE} ELSE {TRUE}

IOCount(ok) == IF ok THEN ioFailures ELSE ioFailures + 1

(***************************************************************************)
(* saveCheckpoint / loadCheckpoint.                                        *)
(***************************************************************************)
\* JSON.stringify(checkpointData): totalAttempts as decimal text
CheckpointData_AheadByOne ==
    [totalAttempts     |-> BigIntToString(totalAttempts + 1),
     validAttempts     |-> validAttempts,
     foundValidPhrases |-> foundValidPhrases]

CheckpointData ==
    [totalAttempts     |-> BigIntToString(totalAttempts),
     validAttempts     |-> validAttempts,
     foundValidPhrases |-> foundValidPhrases]

\* fs.writeFile replaces the checkpoint; an error is logged and swallowed
SaveCheckpoint(ok) ==
    /\ checkpointFile' = IF ok THEN <<CheckpointData>> ELSE checkpointFile
    /\ ckptParams' = IF ok THEN <<config>> ELSE ckptParams
    /\ ioFailures' = IOCount(ok)
    /\ runActivity' = IF ok THEN runActivity \cup {"checkpoint"} ELSE runActivity

\* the counters after loadCheckpoint: those of the file when it exists and
\* can be read, else the constructor's
LoadedCheckpoint_Ignored(ok) ==
    [totalAttempts     |-> totalAttempts,
     validAttempts     |-> validAttempts,
     foundValidPhrases |-> foundValidPhrases]

LoadedCheckpoint_CountOnly(ok) ==
    IF ok /\ checkpointFile # <<>>
    THEN [totalAttempts     |-> ParseBigInt(checkpointFile[1].totalAttempts),
          validAttempts     |-> checkpointFile[1].validAttempts,
          foundValidPhrases |-> foundValidPhrases]
    ELSE [totalAttempts     |-> totalAttempts,
          validAttempts     |-> validAttempts,
          foundValidPhrases |-> foundValidPhrases]

LoadedCheckpoint(ok) ==
    IF ok /\ checkpointFile # <<>>
    THEN [totalAttempts     |-> ParseBigInt(checkpointFile[1].totalAttempts),
          validAttempts     |-> checkpointFile[1].validAttempts,
          foundValidPhrases |-> checkpointFile[1].foundValidPhrases]
    ELSE [totalAttempts     |-> totalAttempts,
          validAttempts     |-> validAttempts,
          foundValidPhrases |-> foundValidPhrases]

(***************************************************************************)
(* initialize.                                                             *)
(***************************************************************************)
\* knownWords.filter(word => !wordList.includes(word))
InvalidWords(cfg) ==
    {i \in 1..Len(cfg.knownWords) :
        \A j \in 1..Len(cfg.wordList) : cfg.wordList[j] # cfg.knownWords[i]}

\* initialize throws: empty word list, or known words outside the word list
InitializeThrows_NoKnownWordCheck(cfg) == Len(cfg.wordList) = 0

InitializeThrows(cfg) == Len(cfg.wordList) = 0 \/ InvalidWords(cfg) # {}

\* main(): the error is caught and logged, findValidSeedPhrases is not called
InitializeFails ==
    /\ pc = "initialize"
    /\ InitializeThrows(config)
    /\ wordList' = config.wordList
    /\ pc' = "Aborted"
    /\ UNCHANGED <<config, totalAttempts, validAttempts, foundValidPhrases,
                   combinationCount, attemptedCombinations, combinationIndex,
                   candidateSeedPhrase, isValid, files, restarts, ioFailures,
                   history>>

Initialize ==
    /\ pc = "initialize"
    /\ ~InitializeThrows(config)
    /\ wordList' = config.wordList
    /\ combinationCount' = InitialCombinationCount[config]
    /\ \E ok \in IOResults :
          /\ totalAttempts' = LoadedCheckpoint(ok).totalAttempts
          /\ validAttempts' = LoadedCheckpoint(ok).validAttempts
          /\ foundValidPhrases' = LoadedCheckpoint(ok).foundValidPhrases
          /\ ioFailures' = IOCount(ok)
    /\ pc' = "prepareLogFile"
    /\ UNCHANGED <<config, attemptedCombinations, combinationIndex,
                   candidateSeedPhrase, isValid, files, restarts, history>>

(***************************************************************************)
(* The log file (attempt ledger).                                          *)
(***************************************************************************)
\* the search parameters printed in the header
Header(cfg, count) ==
    [knownWords       |-> cfg.knownWords,
     missingPositions |-> cfg.missingPositions,
     combinationCount |-> count,
     wordListSize     |-> Len(cfg.wordList)]

\* fs.writeFile(logFilePath, header): the file is replaced by the header,
\* which ends with the line # ATTEMPTED_COMBINATIONS_START
PreparedLogFile(file, cfg, count) ==
    [exists |-> TRUE, marker |-> TRUE, header |-> <<Header(cfg, count)>>,
     lines |-> <<>>]

\* fs.appendFile(logFilePath, line): creates the file when it is missing
AppendedLogFile(file, line) ==
    [file EXCEPT !.exists = TRUE, !.lines = Append(file.lines, line)]

\* `${combinationIndex}\n`
IndexLine(index) == BigIntToString(index)

\* `${timestamp} | Valid: true | Mnemonic: ${seedPhrase.join(' ')}\n`
MatchLine(seedPhrase) == <<"|", "Valid: true", "|", "Mnemonic:">> \o seedPhrase

\* the indices recorded in the file, as a reader of the numeral lines sees them
LedgerIndices(file) ==
    {ParseBigInt(file.lines[i]) : i \in {j \in 1..Len(file.lines) : IsNumeral(file.lines[j])}}

\* the matches recorded in the file
LedgerMatches(file) ==
    {SubSeq(file.lines[i], 5, Len(file.lines[i])) :
        i \in {j \in 1..Len(file.lines) : ~IsNumeral(file.lines[j])}}

PrepareLogFile ==
    /\ pc = "prepareLogFile"
    /\ \E ok \in IOResults :
          /\ logFile' = IF ok THEN PreparedLogFile(logFile, config, combinationCount)
                        ELSE logFile
          /\ ioFailures' = IOCount(ok)
          /\ runActivity' = IF ok THEN runActivity \cup {"ledger"} ELSE runActivity
    /\ pc' = "loadAttemptedCombinations"
    /\ UNCHANGED <<config, memory, checkpointFile, restarts, validated,
                   oracleMatched, matchWritten, skipped, cfgChanged, ckptParams, logResult>>

\* The set built by loadAttemptedCombinations.  readFile throws when the file
\* is missing or unreadable; split(marker)[1] is undefined without the marker
\* and '' (falsy) when nothing follows it; BigInt throws on a line that is no
\* numeral.  In each of these cases the set is left as it was.
LoadedCombinations(file, ok, current) ==
    IF ~ok \/ ~file.exists \/ ~file.marker \/ file.lines = <<>> THEN current
    ELSE IF \E i \in 1..Len(file.lines) : ~IsNumeral(file.lines[i]) THEN current
    ELSE {ParseBigInt(file.lines[i]) : i \in 1..Len(file.lines)}

LoadAttemptedCombinations ==
    /\ pc = "loadAttemptedCombinations"
    /\ \E ok \in IOResults :
          /\ attemptedCombinations' =
                 LoadedCombinations(logFile, ok, attemptedCombinations)
          /\ ioFailures' = IOCount(ok)
    /\ combinationIndex' = totalAttempts
    /\ pc' = "loop"
    /\ UNCHANGED <<config, wordList, totalAttempts, validAttempts,
                   foundValidPhrases, combinationCount, candidateSeedPhrase,
                   isValid, files, restarts, history>>

(***************************************************************************)
(* findValidSeedPhrases: the enumeration loop.                             *)
(***************************************************************************)
\* combinationIndex < this.combinationCount
LoopCondition == combinationIndex < BigValue(combinationCount)

\* loop condition false: leave the loop for the final summary and checkpoint
LoopExit ==
    /\ pc = "loop"
    /\ ~LoopCondition
    /\ pc' = "finalCheckpoint"
    /\ UNCHANGED <<config, memory, files, restarts, ioFailures, history>>

\* an index of the skip-set: advance the counter only, then continue
SkipAttempted ==
    /\ pc = "loop"
    /\ LoopCondition
    /\ combinationIndex \in attemptedCombinations
    /\ totalAttempts' = combinationIndex + 1
    /\ combinationIndex' = combinationIndex + 1
    /\ skipped' = skipped \cup {combinationIndex}
    /\ UNCHANGED <<config, pc, wordList, validAttempts, foundValidPhrases,
                   combinationCount, attemptedCombinations, candidateSeedPhrase,
                   isValid, files, restarts, ioFailures, validated,
                   oracleMatched, matchWritten, cfgChanged, ckptParams,
                   runActivity, logResult>>

\* where the loop body goes after generateCombination
AfterGenerate_ValidateFirst == "validateSeedPhrase"

AfterGenerate == "logAttemptedCombination"

\* count the attempt and decode the candidate
BeginAttempt ==
    /\ pc = "loop"
    /\ LoopCondition
    /\ combinationIndex \notin attemptedCombinations
    /\ totalAttempts' = combinationIndex + 1
    /\ candidateSeedPhrase' =
           GenerateCombination(wordList, config.knownWords,
                               config.missingPositions, combinationIndex)
    /\ isValid' = FALSE
    /\ logResult' = "none"
    /\ pc' = AfterGenerate
    /\ UNCHANGED <<config, wordList, validAttempts, foundValidPhrases,
                   combinationCount, attemptedCombinations, combinationIndex,
                   files, restarts, ioFailures, validated, oracleMatched,
                   matchWritten, skipped, cfgChanged, ckptParams, runActivity>>

\* logAttemptedCombination: append the index, then add it to the set; an
\* error of appendFile is logged and swallowed, and the set is not changed
LogAttemptedCombination ==
    /\ pc = "logAttemptedCombination"
    /\ \E ok \in IOResults :
          /\ logFile' = IF ok THEN AppendedLogFile(logFile, IndexLine(combinationIndex))
                        ELSE logFile
          /\ attemptedCombinations' =
                 IF ok THEN attemptedCombinations \cup {combinationIndex}
                 ELSE attemptedCombinations
          /\ ioFailures' = IOCount(ok)
          /\ logResult' = IF ok THEN "written" ELSE "failed"
          /\ runActivity' = IF ok THEN runActivity \cup {"ledger"} ELSE runActivity
    /\ pc' = "validateSeedPhrase"
    /\ UNCHANGED <<config, wordList, totalAttempts, validAttempts,
                   foundValidPhrases, combinationCount, combinationIndex,
                   candidateSeedPhrase, isValid, checkpointFile, restarts,
                   validated, oracleMatched, matchWritten, skipped, cfgChanged,
                   ckptParams>>

\* The wallets that hold more than 100 USDT.  The chain state does not
\* change during a search: of the candidates of CfgMain those of index 1 and
\* of index 3 (the last) are funded, no other phrase is.
Funded ==
    {GenerateCombination(CfgMain.wordList, CfgMain.knownWords,
                         CfgMain.missingPositions, i) : i \in {1, 3}}

\* what the balance lookup does for a phrase: it reports the balance (more
\* than 100 or not), or it throws (the RPC call fails, Wallet.fromPhrase
\* rejects the phrase)
OracleOutcomes(seedPhrase) ==
    IF seedPhrase \in Funded THEN {"above", "throws"} ELSE {"below", "throws"}

\* validateSeedPhrase: false unless the phrase is well formed and the lookup
\* reports more than 100; every exception is caught and gives false
ValidationResult_ThrowIsMatch(words, seedPhrase, outcome) ==
    IsValidBIP39Phrase(words, seedPhrase) /\ outcome # "below"

ValidationResult(words, seedPhrase, outcome) ==
    IsValidBIP39Phrase(words, seedPhrase) /\ outcome = "above"

ValidateSeedPhrase ==
    /\ pc = "validateSeedPhrase"
    /\ \E outcome \in OracleOutcomes(candidateSeedPhrase) :
          /\ isValid' = ValidationResult(wordList, candidateSeedPhrase, outcome)
          /\ oracleMatched' = (oracleMatched \/ outcome = "above")
    /\ validated' = [validated EXCEPT ![combinationIndex] = @ + 1]
    /\ runActivity' = runActivity \cup {"validation"}
    /\ pc' = IF isValid' THEN "logSeedPhraseAttempt" ELSE "endIteration"
    /\ UNCHANGED <<config, wordList, totalAttempts, validAttempts,
                   foundValidPhrases, combinationCount, attemptedCombinations,
                   combinationIndex, candidateSeedPhrase, files, restarts,
                   ioFailures, matchWritten, skipped, cfgChanged, ckptParams, logResult>>

\* where the loop body goes after a match has been logged
AfterMatch_StopSearch == "finalCheckpoint"

AfterMatch == "endIteration"

\* logSeedPhraseAttempt: append the match line, then push the phrase and
\* count it; an error of appendFile is logged and swallowed before the push
LogSeedPhraseAttempt ==
    /\ pc = "logSeedPhraseAttempt"
    /\ \E ok \in IOResults :
          /\ logFile' = IF ok THEN AppendedLogFile(logFile, MatchLine(candidateSeedPhrase))
                        ELSE logFile
          /\ foundValidPhrases' =
                 IF ok THEN Append(foundValidPhrases, candidateSeedPhrase)
                 ELSE foundValidPhrases
          /\ validAttempts' = IF ok THEN validAttempts + 1 ELSE validAttempts
          /\ matchWritten' =
                 IF ok THEN matchWritten \cup {candidateSeedPhrase} ELSE matchWritten
          /\ ioFailures' = IOCount(ok)
          /\ runActivity' = IF ok THEN runActivity \cup {"ledger"} ELSE runActivity
    /\ pc' = AfterMatch
    /\ UNCHANGED <<config, wordList, totalAttempts, combinationCount,
                   attemptedCombinations, combinationIndex, candidateSeedPhrase,
                   isValid, checkpointFile, restarts, validated, oracleMatched,
                   skipped,
                   cfgChanged, ckptParams, logResult>>

\* end of the loop body, checkpoint interval not elapsed
NextIteration ==
    /\ pc = "endIteration"
    /\ combinationIndex' = combinationIndex + 1
    /\ pc' = "loop"
    /\ UNCHANGED <<config, wordList, totalAttempts, validAttempts,
                   foundValidPhrases, combinationCount, attemptedCombinations,
                   candidateSeedPhrase, isValid, files, restarts, ioFailures,
                   history>>

\* end of the loop body, checkpoint interval elapsed: saveCheckpoint
PeriodicCheckpoint ==
    /\ pc = "endIteration"
    /\ \E ok \in IOResults : SaveCheckpoint(ok)
    /\ combinationIndex' = combinationIndex + 1
    /\ pc' = "loop"
    /\ UNCHANGED <<config, wordList, totalAttempts, validAttempts,
                   foundValidPhrases, combinationCount, attemptedCombinations,
                   candidateSeedPhrase, isValid, logFile, restarts, validated,
                   oracleMatched, matchWritten, skipped, cfgChanged, logResult>>

\* after the loop: summary and final checkpoint
FinalCheckpoint ==
    /\ pc = "finalCheckpoint"
    /\ \E ok \in IOResults : SaveCheckpoint(ok)
    /\ pc' = "Completed"
    /\ UNCHANGED <<config, memory, logFile, restarts, validated, oracleMatched,
                   matchWritten, skipped, cfgChanged, logResult>>

(***************************************************************************)
(* The process is terminated (at any point, or after it has ended) and     *)
(* started again: a new object is constructed, the files stay.             *)
(***************************************************************************)
Restart ==
    /\ restarts < MaxRestarts
    /\ restarts' = restarts + 1
    /\ \E c \in Configs :
          /\ config' = c
          /\ cfgChanged' = (cfgChanged \/ c # config)
    /\ pc' = "initialize"
    /\ wordList' = <<>>
    /\ totalAttempts' = 0
    /\ validAttempts' = 0
    /\ foundValidPhrases' = <<>>
    /\ combinationCount' = <<>>
    /\ attemptedCombinations' = {}
    /\ combinationIndex' = 0
    /\ candidateSeedPhrase' = <<>>
    /\ isValid' = FALSE
    /\ runActivity' = {}
    /\ logResult' = "none"
    /\ UNCHANGED <<files, ioFailures, validated, oracleMatched, matchWritten, skipped,
                   ckptParams>>

\* the steps of main()
Step ==
    \/ InitializeFails
    \/ Initialize
    \/ PrepareLogFile
    \/ LoadAttemptedCombinations
    \/ LoopExit
    \/ SkipAttempted
    \/ BeginAttempt
    \/ LogAttemptedCombination
    \/ ValidateSeedPhrase
    \/ LogSeedPhraseAttempt
    \/ NextIteration
    \/ PeriodicCheckpoint
    \/ FinalCheckpoint

Next == Step \/ Restart

Spec == Init /\ [][Next]_vars

\* main() runs to its end unless the process is terminated
FairSpec == Spec /\ WF_vars(Step)

\* initialize() alone, for templates whose space is too large to enumerate
SizeSpec == SizeInit /\ [][Initialize]_vars

(***************************************************************************)
(* Vocabulary of the properties.                                           *)
(***************************************************************************)
\* positions of findValidSeedPhrases inside the enumeration loop
LoopBodyPcs ==
    {"logAttemptedCombination", "validateSeedPhrase", "logSeedPhraseAttempt",
     "endIteration"}

EnumeratingPcs == {"loop"} \cup LoopBodyPcs

\* V^M of a configuration
SpaceSize(cfg) == Pow(Len(cfg.wordList), Len(cfg.missingPositions))

\* a template as the data model has it: V >= 1 distinct tokens and free
\* slots at ascending positions within the full length L
ValidTemplate(cfg) ==
    LET V == Len(cfg.wordList)
        M == Len(cfg.missingPositions)
        L == Len(cfg.knownWords) + M
    IN  /\ V >= 1
        /\ \A i, j \in 1..V : i # j => cfg.wordList[i] # cfg.wordList[j]
        /\ \A i \in 1..M : cfg.missingPositions[i] \in 1..L
        /\ \A i, j \in 1..M : i < j => cfg.missingPositions[i] < cfg.missingPositions[j]

\* a fixed-slot word outside the vocabulary, or no vocabulary
BadConfig(cfg) ==
    \/ cfg.wordList = <<>>
    \/ \E i \in 1..Len(cfg.knownWords) :
          cfg.knownWords[i] \notin {cfg.wordList[j] : j \in 1..Len(cfg.wordList)}

\* the candidate the configuration's generateCombination gives for an index
Encode(cfg, index) ==
    GenerateCombination(cfg.wordList, cfg.knownWords, cfg.missingPositions, index)

\* The candidate as the design states it: slot p_i (i counted from 0, most
\* significant first) holds Vocabulary[floor(index / V^(M-1-i)) mod V], every
\* other position holds the next known word.
ExpectedCandidate(cfg, index) ==
    LET V == Len(cfg.wordList)
        M == Len(cfg.missingPositions)
        L == Len(cfg.knownWords) + M
        free == {cfg.missingPositions[i] : i \in 1..M}
        slot(p) == CHOOSE i \in 1..M : cfg.missingPositions[i] = p
        freeBefore(p) == Cardinality({q \in free : q < p})
    IN  [p \in 1..L |->
            IF p \in free
            THEN cfg.wordList[((index \div Pow(V, M - slot(p))) % V) + 1]
            ELSE cfg.knownWords[p - freeBefore(p)]]

(***************************************************************************)
(* C1  Resumability: when the driver is stopped after k attempts and       *)
(* started again with the same parameters, no index is passed to           *)
(* validateSeedPhrase more than once over the runs, and the ledger of the  *)
(* resumed run holds every index attempted before the stop together with   *)
(* those attempted since.  Stated for behaviours without I/O errors.       *)
(***************************************************************************)
C1_Resumability ==
    (~cfgChanged /\ ioFailures = 0) =>
        /\ \A i \in IndexRange : validated[i] <= 1
        /\ pc \in EnumeratingPcs =>
              \A i \in IndexRange : validated[i] >= 1 => i \in LedgerIndices(logFile)

(***************************************************************************)
(* C2  Match persistence: a match whose line has been appended to the log  *)
(* file stays in the persisted found-list (the log file or the checkpoint) *)
(* however often the process is terminated and started again, and is in    *)
(* foundValidPhrases of every run that enumerates.  Stated for behaviours  *)
(* with unchanged parameters and without I/O errors.                       *)
(***************************************************************************)
C2_MatchPersistence ==
    (~cfgChanged /\ ioFailures = 0) =>
        \A m \in matchWritten :
           /\ \/ m \in LedgerMatches(logFile)
              \/ /\ checkpointFile # <<>>
                 /\ \E k \in 1..Len(checkpointFile[1].foundValidPhrases) :
                       checkpointFile[1].foundValidPhrases[k] = m
           /\ pc \in EnumeratingPcs =>
                 \E k \in 1..Len(foundValidPhrases) : foundValidPhrases[k] = m

(***************************************************************************)
(* C3  Injectivity and coverage: for a vocabulary of V distinct tokens and *)
(* M free slots at ascending positions, generateCombination gives          *)
(* different candidates for different indices of [0, V^M), so the          *)
(* candidates over [0, V^M) are exactly V^M distinct sequences.  Stated of  *)
(* the configuration of every run, when the run starts.                    *)
(***************************************************************************)
C3_InjectiveAndCovering ==
    (pc = "initialize" /\ ValidTemplate(config)) =>
        /\ \A i, j \in 0..(SpaceSize(config) - 1) :
              i # j => Encode(config, i) # Encode(config, j)
        /\ Cardinality({Encode(config, i) : i \in 0..(SpaceSize(config) - 1)})
               = SpaceSize(config)

\* the driver has decoded the last index of a two-slot template
C3_Witness ==
    /\ config = CfgMain
    /\ pc = "validateSeedPhrase"
    /\ combinationIndex = 3
    /\ candidateSeedPhrase = <<"a", "b", "b", "b">>
    /\ \A i \in 0..2 : Encode(config, i) # candidateSeedPhrase

(***************************************************************************)
(* C4  Mixed-radix decoding: for every index of [0, V^M) the candidate has *)
(* length L, free slot i (most significant first) holds                    *)
(* Vocabulary[floor(index / V^(M-1-i)) mod V] at position p_i and the      *)
(* other positions hold the known words in their order; with vocabulary    *)
(* [a,b,c] and template [x, Free, y, Free], index 0 gives [x,a,y,a],       *)
(* 4 gives [x,b,y,b] and 8 gives [x,c,y,c].  Stated of the configuration   *)
(* of every run, when the run starts, and of the candidate the loop has    *)
(* decoded for its index.                                                  *)
(***************************************************************************)
C4_MixedRadixDecoding ==
    /\ (pc = "initialize" /\ ValidTemplate(config)) =>
          \A index \in 0..(SpaceSize(config) - 1) :
             /\ Len(Encode(config, index))
                    = Len(config.knownWords) + Len(config.missingPositions)
             /\ Encode(config, index) = ExpectedCandidate(config, index)
    /\ (pc = "initialize" /\ config = CfgUnknownWords) =>
          /\ Encode(config, 0) = <<"x", "a", "y", "a">>
          /\ Encode(config, 4) = <<"x", "b", "y", "b">>
          /\ Encode(config, 8) = <<"x", "c", "y", "c">>
    /\ (pc \in LoopBodyPcs /\ ValidTemplate(config)) =>
          candidateSeedPhrase = ExpectedCandidate(config, combinationIndex)

\* the driver has decoded index 2 (digits 1,0) of the template [a, Free, b, Free]
C4_Witness ==
    /\ config = CfgMain
    /\ pc = "validateSeedPhrase"
    /\ combinationIndex = 2
    /\ candidateSeedPhrase = <<"a", "b", "b", "a">>

(***************************************************************************)
(* C5  The ledger is append-only: no step of the driver, the start of a    *)
(* later run with the same parameters included, removes an attempted index *)
(* from the log file, and while a run enumerates every index of the log    *)
(* file is in attemptedCombinations.  Stated for steps without I/O errors. *)
(***************************************************************************)
C5_LedgerAppendOnly ==
    /\ [][(config' = config /\ ioFailures' = 0) =>
              LedgerIndices(logFile) \subseteq LedgerIndices(logFile')]_vars
    /\ []((pc \in EnumeratingPcs /\ ioFailures = 0) =>
              LedgerIndices(logFile) \subseteq attemptedCombinations)

(***************************************************************************)
(* C6  Record before validate, as claimed: whenever validateSeedPhrase is  *)
(* about to be called for an index, that index is in the log file.         *)
(***************************************************************************)
C6_RecordBeforeValidate ==
    pc = "validateSeedPhrase" => combinationIndex \in LedgerIndices(logFile)

(***************************************************************************)
(* C6  amended: whenever validateSeedPhrase is about to be called for an   *)
(* index, logAttemptedCombination has been called for it and has returned; *)
(* if its append succeeded, the index is the last line of the log file and *)
(* is in attemptedCombinations; the record is missing only when the append *)
(* failed with an I/O error, which is logged and swallowed.                *)
(***************************************************************************)
C6_AppendBeforeValidate ==
    pc = "validateSeedPhrase" =>
        /\ logResult \in {"written", "failed"}
        /\ logResult = "written" =>
              /\ logFile.lines # <<>>
              /\ logFile.lines[Len(logFile.lines)] = IndexLine(combinationIndex)
              /\ combinationIndex \in LedgerIndices(logFile)
              /\ combinationIndex \in attemptedCombinations
        /\ logResult = "failed" => ioFailures > 0

\* index 1 is recorded and its validation is about to start
C6_Witness ==
    /\ pc = "validateSeedPhrase"
    /\ combinationIndex = 1
    /\ logResult = "written"
    /\ LedgerIndices(logFile) = {0, 1}
    /\ validated[1] = 0

(***************************************************************************)
(* C7  Fatal configuration: with a known word outside the word list, or an *)
(* empty word list, the run goes from initialize to Aborted and nowhere    *)
(* else, and it writes no ledger line, writes no checkpoint and validates  *)
(* nothing; a run is Aborted for no other reason.                          *)
(***************************************************************************)
C7_FatalConfiguration ==
    /\ BadConfig(config) => (pc \in {"initialize", "Aborted"} /\ runActivity = {})
    /\ pc = "Aborted" =>
          /\ BadConfig(config)
          /\ runActivity = {}
          /\ totalAttempts = 0
          /\ attemptedCombinations = {}

\* a run with an unknown known word has aborted and left the files of the
\* run before it alone
C7_Witness ==
    /\ pc = "Aborted"
    /\ config = CfgUnknownWords
    /\ restarts = 1
    /\ checkpointFile # <<>>
    /\ logFile.exists
    /\ runActivity = {}

(***************************************************************************)
(* C8  Oracle failure tolerance: as long as the balance lookup never       *)
(* reports more than 100 (it throws, or reports less), validAttempts is 0  *)
(* and foundValidPhrases is empty; a run is Aborted only for a fatal       *)
(* configuration, never for a failing lookup; a run that completes has     *)
(* counted the whole space (with unchanged parameters) and, when nothing   *)
(* interrupted it, has validated every index; and if the lookup fails for  *)
(* ever, main() ends Completed with no match (or Aborted for its           *)
(* configuration).                                                         *)
(***************************************************************************)
C8_OracleFailureTolerance ==
    /\ [](~oracleMatched => (validAttempts = 0 /\ foundValidPhrases = <<>>))
    /\ [](pc = "Aborted" => BadConfig(config))
    /\ []((~oracleMatched /\ pc = "Completed" /\ ~cfgChanged) =>
              totalAttempts = BigValue(combinationCount))
    /\ []((~oracleMatched /\ pc = "Completed" /\ restarts = 0) =>
              \A i \in 0..(BigValue(combinationCount) - 1) : validated[i] = 1)
    /\ ([](~oracleMatched) =>
           <>[](\/ pc = "Aborted"
                \/ /\ pc = "Completed"
                   /\ validAttempts = 0
                   /\ foundValidPhrases = <<>>))

\* every lookup of an uninterrupted run failed and the run has completed
C8_Witness ==
    /\ pc = "Completed"
    /\ config = CfgMain
    /\ restarts = 0
    /\ ~oracleMatched
    /\ \A i \in 0..3 : validated[i] = 1
    /\ totalAttempts = 4
    /\ validAttempts = 0
    /\ foundValidPhrases = <<>>

C10_ExhaustiveTermination ==
    /\ [](pc \in {"finalCheckpoint", "Completed"} =>
              combinationIndex >= BigValue(combinationCount))
    /\ [][(restarts' = restarts /\ pc \in EnumeratingPcs) =>
              combinationIndex' \in {combinationIndex, combinationIndex + 1}]_vars
    /\ []((restarts = 0 /\ pc \in EnumeratingPcs \cup {"finalCheckpoint", "Completed"}) =>
              \A i \in IndexRange :
                 validated[i] =
                    IF i < combinationIndex THEN 1
                    ELSE IF i = combinationIndex
                            /\ pc \in {"logSeedPhraseAttempt", "endIteration"}
                         THEN 1
                         ELSE 0)
    /\ ((restarts = 0 /\ pc = "prepareLogFile") ~> (pc = "Completed" \/ restarts > 0))

\* an uninterrupted run found a match at index 1 and went on to the end
C10_Witness ==
    /\ pc = "Completed"
    /\ config = CfgMain
    /\ restarts = 0
    /\ validAttempts = 1
    /\ foundValidPhrases = <<Encode(CfgMain, 1)>>
    /\ combinationIndex = 4
    /\ \A i \in 0..3 : validated[i] = 1

(***************************************************************************)
(* C11  Persistence errors are recoverable: a failed ledger append, match  *)
(* write or checkpoint save never aborts the run (a run is Aborted only    *)
(* for its configuration, and the position after a failed write is the     *)
(* one after a successful write), and every candidate that                 *)
(* validateSeedPhrase reported as a match is, once logSeedPhraseAttempt    *)
(* has returned, the last entry of foundValidPhrases and counted in        *)
(* validAttempts, hence in the next checkpoint that is saved.              *)
(***************************************************************************)
C11_PersistenceErrorsRecoverable ==
    /\ pc = "Aborted" => BadConfig(config)
    /\ (pc = "endIteration" /\ isValid) =>
          /\ foundValidPhrases # <<>>
          /\ foundValidPhrases[Len(foundValidPhrases)] = candidateSeedPhrase
          /\ validAttempts >= 1
    /\ (pc = "Completed" /\ isValid /\ checkpointFile = <<CheckpointData>>) =>
          \E k \in 1..Len(checkpointFile[1].foundValidPhrases) :
             checkpointFile[1].foundValidPhrases[k] = candidateSeedPhrase

(***************************************************************************)
(* C12  Checkpoint-based resume: a run that finds a checkpoint and reads   *)
(* it takes totalAttempts, validAttempts and foundValidPhrases from it,    *)
(* keeps totalAttempts until the loop starts and starts the loop at that   *)
(* index; the ledger being empty, it validates no index below the          *)
(* checkpoint's totalAttempts (the last part stated for behaviours         *)
(* without I/O errors).                                                    *)
(***************************************************************************)
C12_CheckpointResume ==
    /\ [][(pc = "initialize" /\ pc' = "prepareLogFile" /\ checkpointFile # <<>>
             /\ ioFailures' = ioFailures) =>
              /\ totalAttempts' = ParseBigInt(checkpointFile[1].totalAttempts)
              /\ validAttempts' = checkpointFile[1].validAttempts
              /\ foundValidPhrases' = checkpointFile[1].foundValidPhrases]_vars
    /\ [][(pc = "prepareLogFile" /\ pc' = "loadAttemptedCombinations") =>
              totalAttempts' = totalAttempts]_vars
    /\ [][(pc = "loadAttemptedCombinations" /\ pc' = "loop") =>
              (totalAttempts' = totalAttempts /\ combinationIndex' = totalAttempts)]_vars
    /\ []((pc \in EnumeratingPcs /\ checkpointFile # <<>> /\ ioFailures = 0) =>
              combinationIndex >= ParseBigInt(checkpointFile[1].totalAttempts))
    /\ []((pc = "loop" /\ ioFailures = 0 /\ logFile.lines = <<>>
             /\ checkpointFile # <<>>) =>
              /\ combinationIndex = ParseBigInt(checkpointFile[1].totalAttempts)
              /\ validAttempts = checkpointFile[1].validAttempts
              /\ foundValidPhrases = checkpointFile[1].foundValidPhrases)

\* the second run resumed at index 2 from a checkpoint that held one match,
\* its ledger holds index 2 only and it is about to validate index 2
C12_Witness ==
    /\ restarts = 1
    /\ ~cfgChanged
    /\ ioFailures = 0
    /\ config = CfgMain
    /\ pc = "validateSeedPhrase"
    /\ combinationIndex = 2
    /\ checkpointFile # <<>>
    /\ checkpointFile[1].totalAttempts = <<"2">>
    /\ validAttempts = 1
    /\ foundValidPhrases = <<Encode(CfgMain, 1)>>
    /\ logFile.lines = <<IndexLine(2)>>
    /\ validated[0] = 1 /\ validated[1] = 1 /\ validated[2] = 0

(***************************************************************************)
(* C13  Final checkpoint: whenever a run is Completed its totalAttempts is *)
(* SearchSpaceSize (V^M of its parameters), and, the save not having       *)
(* failed, the checkpoint file is the snapshot of the final counters:      *)
(* that totalAttempts, the final validAttempts and the whole of            *)
(* foundValidPhrases.                                                      *)
(***************************************************************************)
C13_FinalCheckpoint ==
    /\ pc = "Completed" => totalAttempts = SpaceSize(config)
    /\ (pc = "Completed" /\ ioFailures = 0) =>
          /\ checkpointFile = <<CheckpointData>>
          /\ ParseBigInt(checkpointFile[1].totalAttempts) = SpaceSize(config)
          /\ checkpointFile[1].validAttempts = validAttempts
          /\ checkpointFile[1].foundValidPhrases = foundValidPhrases

(***************************************************************************)
(* C14  Graceful cancellation: when the process is stopped while it        *)
(* enumerates, it exits only between two iterations (no validation in      *)
(* flight, no match waiting to be written), with every index it validated  *)
(* recorded in the log file and with the checkpoint file holding its       *)
(* current counters.  Stated for behaviours without I/O errors; the        *)
(* process installs no signal handler, so a stop signal ends it where it   *)
(* is, which is the step Restart.                                          *)
(***************************************************************************)
C14_GracefulCancellation ==
    [][(restarts' # restarts /\ pc \in EnumeratingPcs /\ ioFailures = 0) =>
          /\ pc \notin {"logAttemptedCombination", "validateSeedPhrase",
                        "logSeedPhraseAttempt"}
          /\ validated[combinationIndex] > 0 =>
                combinationIndex \in LedgerIndices(logFile)
          /\ checkpointFile = <<CheckpointData>>]_vars

(***************************************************************************)
(* C15  The search-space size is exact: for every vocabulary size V >= 1   *)
(* and every number M >= 0 of free slots, the combinationCount that        *)
(* initialize computes is V^M as a mathematical integer.                   *)
(***************************************************************************)
C15_ExactSearchSpaceSize ==
    pc = "prepareLogFile" =>
        combinationCount = BigPow(Len(config.wordList), Len(config.missingPositions))

(***************************************************************************)
(* C16  Ledger replay round-trip: of every log file the driver has         *)
(* produced, the section after the marker holds attempted indices only,    *)
(* one per line, and loadAttemptedCombinations, reading it into a new      *)
(* object, builds exactly the set of the indices recorded in it, also when *)
(* the run that wrote it found a match.                                    *)
(***************************************************************************)
C16_LedgerReplayRoundTrip ==
    (logFile.exists /\ logFile.marker) =>
        /\ \A i \in 1..Len(logFile.lines) : IsNumeral(logFile.lines[i])
        /\ LoadedCombinations(logFile, TRUE, {}) = LedgerIndices(logFile)

(***************************************************************************)
(* C17  No index is lost across crashes, as claimed: over runs with the    *)
(* same parameters, every checkpoint has totalAttempts <= SearchSpaceSize, *)
(* every index below the totalAttempts of the checkpoint has been          *)
(* validated or was skipped as already attempted, and once a run is        *)
(* Completed every index of [0, V^M) has been validated at least once over *)
(* all runs.                                                               *)
(***************************************************************************)
C17_NoIndexLost ==
    /\ (checkpointFile # <<>> /\ ~cfgChanged) =>
          /\ ParseBigInt(checkpointFile[1].totalAttempts) <= SpaceSize(config)
          /\ \A i \in 0..(ParseBigInt(checkpointFile[1].totalAttempts) - 1) :
                validated[i] >= 1 \/ i \in skipped
    /\ (pc = "Completed" /\ ~cfgChanged) =>
          \A i \in 0..(SpaceSize(config) - 1) : validated[i] >= 1

(***************************************************************************)
(* C17  amended: over runs with the same parameters, every checkpoint has  *)
(* totalAttempts <= SearchSpaceSize and every index below it has been      *)
(* validated or was skipped as already attempted; an index is skipped only *)
(* while it is recorded in the log file and in attemptedCombinations; and  *)
(* once a run is Completed every index of [0, V^M) has been validated at   *)
(* least once over all runs or was skipped as recorded (an index recorded  *)
(* before a crash cut its validation is never validated when a later run   *)
(* replays the log file).                                                  *)
(***************************************************************************)
C17_NoIndexLostUnrecorded ==
    /\ []((checkpointFile # <<>> /\ ~cfgChanged) =>
             /\ ParseBigInt(checkpointFile[1].totalAttempts) <= SpaceSize(config)
             /\ \A i \in 0..(ParseBigInt(checkpointFile[1].totalAttempts) - 1) :
                   validated[i] >= 1 \/ i \in skipped)
    /\ [][\A i \in skipped' \ skipped :
             /\ i = combinationIndex
             /\ i \in LedgerIndices(logFile)
             /\ i \in attemptedCombinations]_vars
    /\ []((pc = "Completed" /\ ~cfgChanged) =>
             \A i \in 0..(SpaceSize(config) - 1) : validated[i] >= 1 \/ i \in skipped)

\* index 0 was recorded, the process was stopped before its validation, the
\* next run replayed the log file, skipped index 0 and has completed
C17_Witness ==
    /\ pc = "Completed"
    /\ config = CfgMain
    /\ ~cfgChanged
    /\ restarts = 1
    /\ skipped = {0}
    /\ validated[0] = 0
    /\ \A i \in 1..3 : validated[i] = 1
    /\ checkpointFile # <<>>
    /\ checkpointFile[1].totalAttempts = <<"4">>

(***************************************************************************)
(* C18  validAttempts equals the length of foundValidPhrases in every      *)
(* reachable state and in every checkpoint the driver has written, and     *)
(* every step changes the two by the same amount.                          *)
(***************************************************************************)
C18_ValidCountIsFoundLength ==
    /\ [](validAttempts = Len(foundValidPhrases))
    /\ [](checkpointFile # <<>> =>
             checkpointFile[1].validAttempts = Len(checkpointFile[1].foundValidPhrases))
    /\ [][validAttempts' - validAttempts
              = Len(foundValidPhrases') - Len(foundValidPhrases)]_vars

\* a run restored one match from the checkpoint, found a second one and has
\* saved both in its final checkpoint
C18_Witness ==
    /\ pc = "Completed"
    /\ config = CfgMain
    /\ restarts = 1
    /\ validated[1] = 1
    /\ validated[3] = 1
    /\ validAttempts = 2
    /\ foundValidPhrases = <<Encode(CfgMain, 1), Encode(CfgMain, 3)>>
    /\ checkpointFile # <<>>
    /\ checkpointFile[1].validAttempts = 2
    /\ Len(checkpointFile[1].foundValidPhrases) = 2

====
